---- MODULE Spec2Model ----
(***************************************************************************)
(* Model of uplink/src/metadata.rs: the `Custom` metadata container, its   *)
(* cached export to the c-bindings representation (`to_uplink_c`) and its  *)
(* import from it (`from_uplink_c`).                                       *)
(*                                                                         *)
(* The heap is explicit.  Every `Box<str>` with at least one byte and      *)
(* every `Vec<UplinkCustomMetadataEntry>` with capacity is an allocation   *)
(* with its own identity; a pointer is the identity of the allocation it   *)
(* points to.  Freed allocations leave the heap, so a pointer to one is    *)
(* dangling.  The hash table of the `HashMap` itself is not modelled: no   *)
(* pointer handed out by the code points into it.                          *)
(***************************************************************************)
EXTENDS Integers, Sequences, FiniteSets, TLC

\* Number of `Custom` variables the application holds.
MaxStores == 2
\* Number of calls made in one run.
MaxCalls == 4

\* ptr::null_mut()
Null == 0
\* NonNull::dangling(): the pointer of an empty `Box<str>` and of a `Vec`
\* without capacity; it points to no allocation.
Dangling == -1

\* The byte strings used as keys and values; 0 is the NUL byte.
K1 == <<1>>
K2 == <<1, 0, 2>>
V1 == <<>>
V2 == <<2, 0, 1>>
Keys == {K1, K2}
Vals == {V1, V2}

\* The lists handed to with_entries: empty, one pair, two keys, one key twice.
EntryLists == {<<>>, <<<<K2, V2>>>>, <<<<K1, V1>>, <<K2, V2>>>>, <<<<K1, V2>>, <<K1, V1>>>>}

\* The records of the descriptors the native side builds.
ForeignLists == {<<>>, <<<<K2, V2>>>>, <<<<K2, V1>>, <<K1, V2>>>>, <<<<K1, V1>>, <<K1, V2>>>>}

Slots == 1..MaxStores

VARIABLES
    mem,        \* the heap: [str, nstr, vec, nvec]
    stores,     \* slot -> the `Custom` held there, or [alive |-> FALSE]
    foreign,    \* the descriptor the native side currently offers
    exported,   \* slot -> the descriptor the caller got from the last to_uplink_c
    origin,     \* slot -> how the store of the slot was made
    last,       \* the last call and what it returned
    calls       \* the number of calls made

vars == <<mem, stores, foreign, exported, origin, last, calls>>

NoneV == [some |-> FALSE]
NoStore == [alive |-> FALSE, gone |-> FALSE]
Dropped == [alive |-> FALSE, gone |-> TRUE]

-----------------------------------------------------------------------------
(* Heap *)

\* `str.into()` for Box<str>: a fresh allocation holding a copy of the
\* bytes; an empty str allocates nothing.
AllocStr(m, b) ==
    IF Len(b) = 0
    THEN [m |-> m, box |-> [ptr |-> Dangling, len |-> 0]]
    ELSE [m |-> [m EXCEPT !.str = (m.nstr :> b) @@ m.str, !.nstr = m.nstr + 1],
          box |-> [ptr |-> m.nstr, len |-> Len(b)]]

\* Drop of a Box<str>.
FreeStr(m, box) ==
    IF box.len = 0
    THEN m
    ELSE [m EXCEPT !.str = [p \in (DOMAIN m.str) \ {box.ptr} |-> m.str[p]]]

\* Drop of a Vec<UplinkCustomMetadataEntry>.
FreeVec(m, v) ==
    IF v.cap = 0
    THEN m
    ELSE [m EXCEPT !.vec = [p \in (DOMAIN m.vec) \ {v.ptr} |-> m.vec[p]]]

\* The bytes found by reading `len` bytes at `ptr`.  Reading freed memory
\* is undefined; the marker <<-1>> stands for whatever is found there.
ReadBytes(m, ptr, len) ==
    IF len = 0 THEN <<>>
    ELSE IF ptr \in DOMAIN m.str /\ len <= Len(m.str[ptr])
         THEN SubSeq(m.str[ptr], 1, len)
         ELSE <<-1>>

\* The str a Box<str> holds.
Str(m, box) == ReadBytes(m, box.ptr, box.len)

RECURSIVE FreeEntries(_, _)
\* Drop of the HashMap: every key and value box is freed.
FreeEntries(m, es) ==
    IF es = {} THEN m
    ELSE LET e == CHOOSE x \in es : TRUE
         IN FreeEntries(FreeStr(FreeStr(m, e.key), e.value), es \ {e})

-----------------------------------------------------------------------------
(* HashMap<Box<str>, Box<str>> : a set of [key, value] boxes, keys unique *)

HasKey(m, es, k) == \E e \in es : Str(m, e.key) = k

EntryOf(m, es, k) == CHOOSE e \in es : Str(m, e.key) = k

\* MapInsert with a slip: on an occupied key the value the map has is kept
\* and the new one dropped (the behaviour of entry().or_insert()).
MapInsertFirstWins(m, es, kbox, vbox) ==
    IF HasKey(m, es, Str(m, kbox))
    THEN [m |-> FreeStr(FreeStr(m, kbox), vbox), es |-> es, was |-> TRUE]
    ELSE [m |-> m, es |-> es \cup {[key |-> kbox, value |-> vbox]}, was |-> FALSE]

\* HashMap::insert(kbox, vbox).  On an occupied key the map keeps the key
\* box it has, drops the new key box and hands back the old value, which
\* the callers drop.
MapInsert(m, es, kbox, vbox) ==
    IF HasKey(m, es, Str(m, kbox))
    THEN LET old == EntryOf(m, es, Str(m, kbox))
         IN [m |-> FreeStr(FreeStr(m, kbox), old.value),
             es |-> (es \ {old}) \cup {[key |-> old.key, value |-> vbox]},
             was |-> TRUE]
    ELSE [m |-> m, es |-> es \cup {[key |-> kbox, value |-> vbox]}, was |-> FALSE]

\* HashMap::remove(k): the removed key and value boxes are dropped.
MapRemove(m, es, k) ==
    IF HasKey(m, es, k)
    THEN LET old == EntryOf(m, es, k)
         IN [m |-> FreeStr(FreeStr(m, old.key), old.value), es |-> es \ {old},
             was |-> TRUE]
    ELSE [m |-> m, es |-> es, was |-> FALSE]

\* map.insert(k.into(), v.into())
InsertStr(m, es, k, v) ==
    LET a == AllocStr(m, k)
        b == AllocStr(a.m, v)
    IN MapInsert(b.m, es, a.box, b.box)

\* The (key, value) pairs of a map, as byte strings.
Content(m, es) == {<<Str(m, e.key), Str(m, e.value)>> : e \in es}

\* The orders in which iter() may visit a map.
Orders(es) ==
    {f \in [1..Cardinality(es) -> es] : \A i, j \in DOMAIN f : i # j => f[i] # f[j]}

-----------------------------------------------------------------------------
(* Custom and UplinkCustomMetadataWrapper *)

\* One UplinkCustomMetadataEntry of a foreign record array, read at index i
\* (from 0).  Reading outside a live array is undefined; the record found
\* there points nowhere.
ReadEntry(m, ptr, i) ==
    IF ptr \in DOMAIN m.vec /\ i + 1 <= Len(m.vec[ptr])
    THEN m.vec[ptr][i + 1]
    ELSE [key |-> Null, key_length |-> 1, value |-> Null, value_length |-> 1]

\* impl Default for UplinkCustomMetadataWrapper
default ==
    [some |-> TRUE,
     custom_metadata |-> [entries |-> Null, count |-> 0],
     entries |-> [ptr |-> Dangling, cap |-> 0]]

\* #[derive(Default)] for Custom
CustomDefault == [alive |-> TRUE, gone |-> FALSE, entries |-> {}, inner |-> NoneV]

\* Custom::count
count(c) == Cardinality(c.entries)

\* Custom::get : [some |-> FALSE] or the value found
get(m, c, k) ==
    IF HasKey(m, c.entries, k)
    THEN [some |-> TRUE, v |-> Str(m, EntryOf(m, c.entries, k).value)]
    ELSE NoneV

\* Custom::iter, visiting the map in order `ord`
iter(m, c, ord) == [i \in DOMAIN ord |-> <<Str(m, ord[i].key), Str(m, ord[i].value)>>]

\* Drop of `inner`: the wrapper's Vec is released.
DropInner(m, inner) == IF inner.some THEN FreeVec(m, inner.entries) ELSE m

\* Drop of a Custom: its cache and its map are released.
DropCustom(m, c) == FreeEntries(DropInner(m, c.inner), c.entries)

RECURSIVE InsertAllStopsEarly(_, _, _, _)
\* InsertAll with a slip: the loop stops before the last pair.
InsertAllStopsEarly(m, es, list, i) ==
    IF i >= Len(list) THEN [m |-> m, es |-> es]
    ELSE LET r == InsertStr(m, es, list[i][1], list[i][2])
         IN InsertAllStopsEarly(r.m, r.es, list, i + 1)

RECURSIVE InsertAll(_, _, _, _)
\* The loop of with_entries.
InsertAll(m, es, list, i) ==
    IF i > Len(list) THEN [m |-> m, es |-> es]
    ELSE LET r == InsertStr(m, es, list[i][1], list[i][2])
         IN InsertAll(r.m, r.es, list, i + 1)

\* Custom::with_entries
with_entries(m, list) ==
    LET r == InsertAll(m, {}, list, 1)
    IN [m |-> r.m, custom |-> [alive |-> TRUE, gone |-> FALSE, entries |-> r.es, inner |-> NoneV]]

\* insert with a slip: is_none() for is_some().
insert_negated(m, c, k, v) ==
    LET r == InsertStr(DropInner(m, c.inner), c.entries, k, v)
    IN [m |-> r.m, custom |-> [c EXCEPT !.inner = NoneV, !.entries = r.es],
        ret |-> ~r.was]

\* insert with a slip: the cache is kept when the key already has the value.
insert_keeps_cache_if_same(m, c, k, v) ==
    IF get(m, c, k) = [some |-> TRUE, v |-> v]
    THEN LET r == InsertStr(m, c.entries, k, v)
         IN [m |-> r.m, custom |-> [c EXCEPT !.entries = r.es], ret |-> r.was]
    ELSE LET r == InsertStr(DropInner(m, c.inner), c.entries, k, v)
         IN [m |-> r.m, custom |-> [c EXCEPT !.inner = NoneV, !.entries = r.es],
             ret |-> r.was]

\* Custom::insert
insert(m, c, k, v) ==
    LET r == InsertStr(DropInner(m, c.inner), c.entries, k, v)
    IN [m |-> r.m, custom |-> [c EXCEPT !.inner = NoneV, !.entries = r.es],
        ret |-> r.was]

\* delete with a slip: the cache is left in place.
delete_keeps_cache(m, c, k) ==
    LET r == MapRemove(m, c.entries, k)
    IN [m |-> r.m, custom |-> [c EXCEPT !.entries = r.es], ret |-> r.was]

\* delete with a slip: is_none() for is_some().
delete_negated(m, c, k) ==
    LET r == MapRemove(DropInner(m, c.inner), c.entries, k)
    IN [m |-> r.m, custom |-> [c EXCEPT !.inner = NoneV, !.entries = r.es],
        ret |-> ~r.was]

\* Custom::delete
delete(m, c, k) ==
    LET r == MapRemove(DropInner(m, c.inner), c.entries, k)
    IN [m |-> r.m, custom |-> [c EXCEPT !.inner = NoneV, !.entries = r.es],
        ret |-> r.was]

\* The length strlen() finds: the bytes before the first NUL.
CStrLen(b) ==
    IF \E i \in 1..Len(b) : b[i] = 0
    THEN (CHOOSE i \in 1..Len(b) : b[i] = 0 /\ \A j \in 1..(i - 1) : b[j] # 0) - 1
    ELSE Len(b)

\* from_custom with a slip: the wrapper does not keep the Vec whose pointer
\* the descriptor holds, so the record array is released on return.
from_custom_drops_vec(m, c, ord) ==
    IF count(c) = 0
    THEN [m |-> m, w |-> default]
    ELSE LET p == m.nvec
         IN [m |-> [m EXCEPT !.nvec = p + 1],
             w |-> [some |-> TRUE,
                    custom_metadata |-> [entries |-> p, count |-> count(c)],
                    entries |-> [ptr |-> Dangling, cap |-> 0]]]

\* from_custom with a slip: the lengths are those of C strings.
from_custom_strlen(m, c, ord) ==
    IF count(c) = 0
    THEN [m |-> m, w |-> default]
    ELSE LET recs == [i \in DOMAIN ord |->
                        [key |-> ord[i].key.ptr,
                         key_length |-> CStrLen(Str(m, ord[i].key)),
                         value |-> ord[i].value.ptr,
                         value_length |-> CStrLen(Str(m, ord[i].value))]]
             p == m.nvec
         IN [m |-> [m EXCEPT !.vec = (p :> recs) @@ m.vec, !.nvec = p + 1],
             w |-> [some |-> TRUE,
                    custom_metadata |-> [entries |-> p, count |-> Len(recs)],
                    entries |-> [ptr |-> p, cap |-> count(c)]]]

\* from_custom with a slip: no early return for the empty store, so the
\* descriptor holds the pointer of a Vec without capacity.
from_custom_no_empty_case(m, c, ord) ==
    IF count(c) = 0
    THEN [m |-> m,
          w |-> [some |-> TRUE,
                 custom_metadata |-> [entries |-> Dangling, count |-> 0],
                 entries |-> [ptr |-> Dangling, cap |-> 0]]]
    ELSE LET recs == [i \in DOMAIN ord |->
                        [key |-> ord[i].key.ptr, key_length |-> ord[i].key.len,
                         value |-> ord[i].value.ptr, value_length |-> ord[i].value.len]]
             p == m.nvec
         IN [m |-> [m EXCEPT !.vec = (p :> recs) @@ m.vec, !.nvec = p + 1],
             w |-> [some |-> TRUE,
                    custom_metadata |-> [entries |-> p, count |-> Len(recs)],
                    entries |-> [ptr |-> p, cap |-> count(c)]]]

\* UplinkCustomMetadataWrapper::from_custom, with custom.iter() visiting the
\* map in order `ord`.
from_custom(m, c, ord) ==
    IF count(c) = 0
    THEN [m |-> m, w |-> default]
    ELSE LET recs == [i \in DOMAIN ord |->
                        [key |-> ord[i].key.ptr, key_length |-> ord[i].key.len,
                         value |-> ord[i].value.ptr, value_length |-> ord[i].value.len]]
             p == m.nvec
         IN [m |-> [m EXCEPT !.vec = (p :> recs) @@ m.vec, !.nvec = p + 1],
             w |-> [some |-> TRUE,
                    custom_metadata |-> [entries |-> p, count |-> Len(recs)],
                    entries |-> [ptr |-> p, cap |-> count(c)]]]

\* to_uplink_c with a slip: the cache is rebuilt on every call.
to_uplink_c_always_rebuilds(m, c, ord) ==
    LET r == from_custom(m, c, ord)
    IN [m |-> DropInner(r.m, c.inner), custom |-> [c EXCEPT !.inner = r.w],
        ret |-> r.w.custom_metadata]

\* to_uplink_c with a slip: the map is taken out of the store when the
\* cache is built (its boxes are kept alive by the cache).
to_uplink_c_takes_entries(m, c, ord) ==
    IF ~c.inner.some
    THEN LET r == from_custom(m, c, ord)
         IN [m |-> r.m, custom |-> [c EXCEPT !.inner = r.w, !.entries = {}],
             ret |-> r.w.custom_metadata]
    ELSE [m |-> m, custom |-> c, ret |-> c.inner.custom_metadata]

\* Custom::to_uplink_c
to_uplink_c(m, c, ord) ==
    IF ~c.inner.some
    THEN LET r == from_custom(m, c, ord)
         IN [m |-> r.m, custom |-> [c EXCEPT !.inner = r.w],
             ret |-> r.w.custom_metadata]
    ELSE [m |-> m, custom |-> c, ret |-> c.inner.custom_metadata]

RECURSIVE CloneEntries(_, _, _)
\* HashMap::clone : every key and value box is cloned into a new allocation.
CloneEntries(m, es, acc) ==
    IF es = {} THEN [m |-> m, es |-> acc]
    ELSE LET e == CHOOSE x \in es : TRUE
             a == AllocStr(m, Str(m, e.key))
             b == AllocStr(a.m, Str(a.m, e.value))
         IN CloneEntries(b.m, es \ {e}, acc \cup {[key |-> a.box, value |-> b.box]})

\* clone with a slip: the clone's map holds the source's boxes.
clone_shares_boxes(m, c) ==
    [m |-> m, custom |-> [alive |-> TRUE, gone |-> FALSE, entries |-> c.entries,
                          inner |-> NoneV]]

\* clone with a slip: the cache is copied with the entries (a derived Clone).
clone_copies_cache(m, c) ==
    LET r == CloneEntries(m, c.entries, {})
    IN [m |-> r.m, custom |-> [alive |-> TRUE, gone |-> FALSE, entries |-> r.es,
                               inner |-> c.inner]]

\* impl Clone for Custom
clone(m, c) ==
    LET r == CloneEntries(m, c.entries, {})
    IN [m |-> r.m, custom |-> [alive |-> TRUE, gone |-> FALSE, entries |-> r.es, inner |-> NoneV]]

\* helpers::unchecked_ptr_c_char_and_length_to_str : a new Box<str> holding
\* a copy of exactly `length` bytes read at `ptr`.
unchecked_ptr_c_char_and_length_to_str(m, ptr, length) ==
    AllocStr(m, ReadBytes(m, ptr, length))

RECURSIVE ImportLoopShort(_, _, _, _, _)
\* ImportLoop with a slip: the loop stops one record early.
ImportLoopShort(m, uc, i, es, reads) ==
    IF i >= uc.count - 1 THEN [m |-> m, es |-> es, reads |-> reads]
    ELSE LET entry == ReadEntry(m, uc.entries, i)
             key == unchecked_ptr_c_char_and_length_to_str(m, entry.key, entry.key_length)
             value == unchecked_ptr_c_char_and_length_to_str(
                          key.m, entry.value, entry.value_length)
             r == MapInsert(value.m, es, key.box, value.box)
         IN ImportLoopShort(r.m, uc, i + 1, r.es, reads \cup {<<uc.entries, i>>})

RECURSIVE ImportLoopBorrows(_, _, _, _, _)
\* ImportLoop with a slip: the map's boxes are made of the descriptor's
\* pointers, with no copy.
ImportLoopBorrows(m, uc, i, es, reads) ==
    IF i >= uc.count THEN [m |-> m, es |-> es, reads |-> reads]
    ELSE LET entry == ReadEntry(m, uc.entries, i)
             r == MapInsert(m, es, [ptr |-> entry.key, len |-> entry.key_length],
                            [ptr |-> entry.value, len |-> entry.value_length])
         IN ImportLoopBorrows(r.m, uc, i + 1, r.es, reads \cup {<<uc.entries, i>>})

RECURSIVE ImportLoop(_, _, _, _, _)
\* The loop of from_uplink_c over 0..count; `reads` collects the places of
\* the record array it reads.
ImportLoop(m, uc, i, es, reads) ==
    IF i >= uc.count THEN [m |-> m, es |-> es, reads |-> reads]
    ELSE LET entry == ReadEntry(m, uc.entries, i)
             key == unchecked_ptr_c_char_and_length_to_str(m, entry.key, entry.key_length)
             value == unchecked_ptr_c_char_and_length_to_str(
                          key.m, entry.value, entry.value_length)
             r == MapInsert(value.m, es, key.box, value.box)
         IN ImportLoop(r.m, uc, i + 1, r.es, reads \cup {<<uc.entries, i>>})

\* from_uplink_c with a slip: a descriptor that repeats a key is refused.
from_uplink_c_refuses_repeats(m, uc) ==
    LET r == ImportLoop(m, uc, 0, {}, {})
    IN IF count([entries |-> r.es]) < uc.count
       THEN [m |-> DropCustom(r.m, [entries |-> r.es, inner |-> NoneV]), tag |-> "Err",
             custom |-> CustomDefault, reads |-> r.reads]
       ELSE [m |-> r.m, tag |-> "Ok",
             custom |-> [alive |-> TRUE, gone |-> FALSE, entries |-> r.es, inner |-> NoneV],
             reads |-> r.reads]

\* from_uplink_c with a slip: no early return on count 0 and the first
\* record is read before the count is looked at.
from_uplink_c_reads_first(m, uc) ==
    LET r == ImportLoop(m, uc, 0, {}, {<<uc.entries, 0>>})
    IN [m |-> r.m, tag |-> "Ok",
        custom |-> [alive |-> TRUE, gone |-> FALSE, entries |-> r.es, inner |-> NoneV],
        reads |-> r.reads]

\* Custom::from_uplink_c
from_uplink_c(m, uc) ==
    IF uc.count = 0
    THEN [m |-> m, tag |-> "Ok", custom |-> CustomDefault, reads |-> {}]
    ELSE LET r == ImportLoop(m, uc, 0, {}, {})
         IN [m |-> r.m, tag |-> "Ok",
             custom |-> [alive |-> TRUE, gone |-> FALSE, entries |-> r.es, inner |-> NoneV],
             reads |-> r.reads]

-----------------------------------------------------------------------------
(* What a descriptor describes *)

\* The record array a descriptor points to, as found in memory now.
DescRecs(m, d) == [i \in 1..d.count |-> ReadEntry(m, d.entries, i - 1)]

\* The (key, value) byte strings a descriptor's records point to, as found
\* in memory now.
DescStrs(m, d) ==
    [i \in 1..d.count |->
        LET e == ReadEntry(m, d.entries, i - 1)
        IN <<ReadBytes(m, e.key, e.key_length), ReadBytes(m, e.value, e.value_length)>>]

\* The descriptor's record array and every buffer its records point to are
\* allocated.
DescLive(m, d) ==
    d.count = 0 \/
        /\ d.entries \in DOMAIN m.vec
        /\ Len(m.vec[d.entries]) = d.count
        /\ \A i \in 1..d.count :
              LET e == m.vec[d.entries][i]
              IN /\ (e.key_length = 0 \/ e.key \in DOMAIN m.str)
                 /\ (e.value_length = 0 \/ e.value \in DOMAIN m.str)

-----------------------------------------------------------------------------
(* The native side: it builds descriptors in its own memory and frees them *)

\* One more call, within the run's length.
Step == calls < MaxCalls /\ calls' = calls + 1

RECURSIVE NativeBuild(_, _, _, _, _)
NativeBuild(m, pairs, i, recs, boxes) ==
    IF i > Len(pairs) THEN [m |-> m, recs |-> recs, boxes |-> boxes]
    ELSE LET a == AllocStr(m, pairs[i][1])
             b == AllocStr(a.m, pairs[i][2])
         IN NativeBuild(b.m, pairs, i + 1,
                Append(recs, [key |-> a.box.ptr, key_length |-> a.box.len,
                              value |-> b.box.ptr, value_length |-> b.box.len]),
                boxes \cup {a.box, b.box})

NativeProduce(pairs, nul) ==
    /\ ~foreign.some /\ ~foreign.freed
    /\ Step
    /\ LET r == NativeBuild(mem, pairs, 1, <<>>, {})
           p == r.m.nvec
       IN IF Len(pairs) = 0
          THEN /\ mem' = mem
               /\ foreign' = [some |-> TRUE, freed |-> FALSE,
                              desc |-> [entries |-> nul, count |-> 0],
                              vec |-> [ptr |-> Dangling, cap |-> 0], boxes |-> {}]
          ELSE /\ nul = Null
               /\ mem' = [r.m EXCEPT !.vec = (p :> r.recs) @@ r.m.vec, !.nvec = p + 1]
               /\ foreign' = [some |-> TRUE, freed |-> FALSE,
                              desc |-> [entries |-> p, count |-> Len(pairs)],
                              vec |-> [ptr |-> p, cap |-> Len(pairs)],
                              boxes |-> r.boxes]
    /\ last' = [op |-> "native_produce", slot |-> 0]
    /\ UNCHANGED <<stores, exported, origin>>

RECURSIVE FreeBoxes(_, _)
FreeBoxes(m, bs) ==
    IF bs = {} THEN m
    ELSE LET b == CHOOSE x \in bs : TRUE IN FreeBoxes(FreeStr(m, b), bs \ {b})

NativeFree ==
    /\ foreign.some
    /\ Step
    /\ mem' = FreeBoxes(FreeVec(mem, foreign.vec), foreign.boxes)
    /\ foreign' = [some |-> FALSE, freed |-> TRUE]
    /\ last' = [op |-> "native_free", slot |-> 0]
    /\ UNCHANGED <<stores, exported, origin>>

-----------------------------------------------------------------------------
(* The application's calls *)

Init ==
    /\ mem = [str |-> <<>>, nstr |-> 1, vec |-> <<>>, nvec |-> 1]
    /\ stores = [s \in Slots |-> NoStore]
    /\ foreign = [some |-> FALSE, freed |-> FALSE]
    /\ exported = [s \in Slots |-> NoneV]
    /\ origin = [s \in Slots |-> [kind |-> "none", src |-> 0]]
    /\ last = [op |-> "init", slot |-> 0]
    /\ calls = 0

\* Slot s is a variable not yet bound; variables are numbered in the order
\* they are bound, and each is bound once.
Unbound(s) ==
    /\ ~stores[s].alive /\ ~stores[s].gone
    /\ \A t \in Slots : t < s => (stores[t].alive \/ stores[t].gone)

\* The caller's descriptor of slot s is no longer covered by the contract.
Stale(s) == IF exported[s].some THEN [exported[s] EXCEPT !.stale = TRUE] ELSE exported[s]

\* let s = Custom::default()
DoDefault(s) ==
    /\ Unbound(s)
    /\ Step
    /\ stores' = [stores EXCEPT ![s] = CustomDefault]
    /\ exported' = [exported EXCEPT ![s] = NoneV]
    /\ origin' = [origin EXCEPT ![s] = [kind |-> "default", src |-> 0]]
    /\ last' = [op |-> "default", slot |-> s]
    /\ UNCHANGED <<mem, foreign>>

\* let s = Custom::with_entries(list)
DoWithEntries(s, list) ==
    /\ Unbound(s)
    /\ Step
    /\ LET r == with_entries(mem, list)
       IN /\ mem' = r.m
          /\ stores' = [stores EXCEPT ![s] = r.custom]
    /\ exported' = [exported EXCEPT ![s] = NoneV]
    /\ origin' = [origin EXCEPT ![s] = [kind |-> "with_entries", src |-> 0]]
    /\ last' = [op |-> "with_entries", slot |-> s, list |-> list]
    /\ UNCHANGED foreign

\* s.insert(k, v)
DoInsert(s, k, v) ==
    /\ stores[s].alive
    /\ Step
    /\ LET r == insert(mem, stores[s], k, v)
       IN /\ mem' = r.m
          /\ stores' = [stores EXCEPT ![s] = r.custom]
          /\ last' = [op |-> "insert", slot |-> s, key |-> k, value |-> v, ret |-> r.ret]
    /\ exported' = [exported EXCEPT ![s] = Stale(s)]
    /\ UNCHANGED <<foreign, origin>>

\* s.delete(k)
DoDelete(s, k) ==
    /\ stores[s].alive
    /\ Step
    /\ LET r == delete(mem, stores[s], k)
       IN /\ mem' = r.m
          /\ stores' = [stores EXCEPT ![s] = r.custom]
          /\ last' = [op |-> "delete", slot |-> s, key |-> k, ret |-> r.ret]
    /\ exported' = [exported EXCEPT ![s] = Stale(s)]
    /\ UNCHANGED <<foreign, origin>>

\* s.count()
DoCount(s) ==
    /\ stores[s].alive
    /\ Step
    /\ last' = [op |-> "count", slot |-> s, ret |-> count(stores[s])]
    /\ UNCHANGED <<mem, stores, foreign, exported, origin>>

\* s.get(k) with a slip: the lookup resets the cache.
DoGetClearsCache(s, k) ==
    /\ stores[s].alive
    /\ Step
    /\ last' = [op |-> "get", slot |-> s, key |-> k, ret |-> get(mem, stores[s], k)]
    /\ mem' = DropInner(mem, stores[s].inner)
    /\ stores' = [stores EXCEPT ![s].inner = NoneV]
    /\ UNCHANGED <<foreign, exported, origin>>

\* s.get(k)
DoGet(s, k) ==
    /\ stores[s].alive
    /\ Step
    /\ last' = [op |-> "get", slot |-> s, key |-> k, ret |-> get(mem, stores[s], k)]
    /\ UNCHANGED <<mem, stores, foreign, exported, origin>>

\* s.iter(), run to its end
DoIter(s) ==
    /\ stores[s].alive
    /\ Step
    /\ \E ord \in Orders(stores[s].entries) :
          last' = [op |-> "iter", slot |-> s, ret |-> iter(mem, stores[s], ord)]
    /\ UNCHANGED <<mem, stores, foreign, exported, origin>>

\* s.to_uplink_c(); the caller keeps the descriptor it gets
DoToUplinkC(s) ==
    /\ stores[s].alive
    /\ Step
    /\ \E ord \in Orders(stores[s].entries) :
          LET r == to_uplink_c(mem, stores[s], ord)
          IN /\ mem' = r.m
             /\ stores' = [stores EXCEPT ![s] = r.custom]
             /\ exported' = [exported EXCEPT ![s] =
                                [some |-> TRUE, desc |-> r.ret,
                                 recs |-> DescRecs(r.m, r.ret),
                                 strs |-> DescStrs(r.m, r.ret),
                                 stale |-> FALSE]]
             /\ last' = [op |-> "to_uplink_c", slot |-> s, ret |-> r.ret,
                         prev |-> exported[s], allocs |-> r.m.nvec - mem.nvec]
    /\ UNCHANGED <<foreign, origin>>

\* let d = s.clone()
DoClone(s, d) ==
    /\ stores[s].alive
    /\ Unbound(d)
    /\ Step
    /\ LET r == clone(mem, stores[s])
       IN /\ mem' = r.m
          /\ stores' = [stores EXCEPT ![d] = r.custom]
    /\ exported' = [exported EXCEPT ![d] = NoneV]
    /\ origin' = [origin EXCEPT ![d] = [kind |-> "clone", src |-> s]]
    /\ last' = [op |-> "clone", slot |-> d, src |-> s]
    /\ UNCHANGED foreign

\* drop(s)
DoDrop(s) ==
    /\ stores[s].alive
    /\ Step
    /\ mem' = DropCustom(mem, stores[s])
    /\ stores' = [stores EXCEPT ![s] = Dropped]
    /\ exported' = [exported EXCEPT ![s] = Stale(s)]
    /\ origin' = [origin EXCEPT ![s] = [kind |-> "none", src |-> 0]]
    /\ last' = [op |-> "drop", slot |-> s]
    /\ UNCHANGED foreign

\* let d = Custom::from_uplink_c(&uc), where uc is a descriptor the contract
\* covers: the one the caller got from slot src's to_uplink_c with no insert,
\* delete or drop since, or (src = 0) the one the native side offers.
DoFromUplinkC(src, d) ==
    /\ Unbound(d)
    /\ Step
    /\ IF src = 0 THEN foreign.some ELSE exported[src].some /\ ~exported[src].stale
    /\ LET uc == IF src = 0 THEN foreign.desc ELSE exported[src].desc
           r == from_uplink_c(mem, uc)
       IN /\ mem' = r.m
          /\ stores' = [stores EXCEPT ![d] = IF r.tag = "Ok" THEN r.custom ELSE NoStore]
          /\ origin' = [origin EXCEPT ![d] =
                           IF r.tag = "Ok"
                           THEN [kind |-> "from_uplink_c", src |-> src, uc |-> uc]
                           ELSE [kind |-> "none", src |-> 0]]
          /\ last' = [op |-> "from_uplink_c", slot |-> d, src |-> src, arg |-> uc,
                      strs |-> DescStrs(mem, uc), tag |-> r.tag, reads |-> r.reads]
    /\ exported' = [exported EXCEPT ![d] = NoneV]
    /\ UNCHANGED foreign

Next ==
    \/ \E s \in Slots : DoDefault(s)
    \/ \E s \in Slots, list \in EntryLists : DoWithEntries(s, list)
    \/ \E s \in Slots, k \in Keys, v \in Vals : DoInsert(s, k, v)
    \/ \E s \in Slots, k \in Keys : DoDelete(s, k)
    \/ \E s \in Slots : DoCount(s)
    \/ \E s \in Slots, k \in Keys : DoGet(s, k)
    \/ \E s \in Slots : DoIter(s)
    \/ \E s \in Slots : DoToUplinkC(s)
    \/ \E s \in Slots, d \in Slots : DoClone(s, d)
    \/ \E s \in Slots : DoDrop(s)
    \/ \E src \in {0} \cup Slots, d \in Slots : DoFromUplinkC(src, d)
    \/ \E list \in ForeignLists, nul \in {Null, Dangling} : NativeProduce(list, nul)
    \/ NativeFree

Spec == Init /\ [][Next]_vars

-----------------------------------------------------------------------------
(* Properties *)

\* The records a descriptor of map `es`, visited in order `ord`, must hold.
RecsOf(ord) ==
    [i \in DOMAIN ord |->
        [key |-> ord[i].key.ptr, key_length |-> ord[i].key.len,
         value |-> ord[i].value.ptr, value_length |-> ord[i].value.len]]

\* What count() and get() show of a store.
View(m, c) == [count |-> count(c), pairs |-> Content(m, c.entries)]

\* A byte string with a NUL byte in it.
HasNul(b) == \E i \in 1..Len(b) : b[i] = 0

\* The last record of `strs` with the key of record i.
LastWithKey(strs, i) ==
    CHOOSE j \in DOMAIN strs :
        /\ strs[j][1] = strs[i][1]
        /\ \A h \in DOMAIN strs : strs[h][1] = strs[i][1] => h <= j

\* C1: a descriptor returned by to_uplink_c references only live memory, which
\* holds what it held when the descriptor was returned, in every later state
\* in which no insert or delete was called on the store and the store was not
\* dropped, whatever else was called.
C1_DescriptorStaysValid ==
    \A s \in Slots :
        (exported[s].some /\ ~exported[s].stale) =>
            /\ DescLive(mem, exported[s].desc)
            /\ DescRecs(mem, exported[s].desc) = exported[s].recs
            /\ DescStrs(mem, exported[s].desc) = exported[s].strs

\* C1 witness: a descriptor of two records is still covered after the store
\* was cloned.
C1_Witness ==
    \E s \in Slots :
        /\ exported[s].some /\ ~exported[s].stale
        /\ exported[s].desc.count = 2
        /\ last.op = "clone" /\ last.src = s

\* C2: a to_uplink_c that follows a to_uplink_c on the same store with no
\* insert or delete between them returns the same descriptor (same count, same
\* record array pointer) and allocates no record array.
C2_SecondExportIsCached ==
    (last.op = "to_uplink_c" /\ last.prev.some /\ ~last.prev.stale) =>
        /\ last.ret = last.prev.desc
        /\ last.allocs = 0

\* C2 witness: a second to_uplink_c on an unchanged store with entries.
C2_Witness ==
    /\ last.op = "to_uplink_c" /\ last.prev.some /\ ~last.prev.stale
    /\ last.ret.count > 0

\* C3: the descriptor a to_uplink_c returns describes the store as it is:
\* its count is count() and its records are, one to one, the current entries,
\* each with the pointer and length of the entry's key and value.
C3_ExportReflectsStore ==
    last.op = "to_uplink_c" =>
        LET c == stores[last.slot]
            d == last.ret
        IN /\ d.count = count(c)
           /\ DescLive(mem, d)
           /\ \E ord \in Orders(c.entries) :
                 /\ DescRecs(mem, d) = RecsOf(ord)
                 /\ DescStrs(mem, d) = iter(mem, c, ord)

\* C3 witness: to_uplink_c, a delete that removes an entry, to_uplink_c again.
C3_Witness ==
    /\ last.op = "to_uplink_c"
    /\ last.prev.some /\ last.prev.stale
    /\ last.prev.desc.count = 2 /\ last.ret.count = 1

\* C4: from_uplink_c of the descriptor to_uplink_c returned for store S
\* succeeds and yields a store with the count and the (key, value) pairs of S.
C4_RoundTrip ==
    (last.op = "from_uplink_c" /\ last.src # 0) =>
        /\ last.tag = "Ok"
        /\ stores[last.slot].alive
        /\ View(mem, stores[last.slot]) = View(mem, stores[last.src])

\* C4 witness: a round trip of a store of two entries.
C4_Witness ==
    /\ last.op = "from_uplink_c" /\ last.src # 0
    /\ count(stores[last.src]) = 2

\* C5 as stated: for each record of the descriptor, with key k and value v,
\* get(k) on the store from_uplink_c returns is v.
C5_EveryRecordFound ==
    last.op = "from_uplink_c" =>
        \A i \in DOMAIN last.strs :
            get(mem, stores[last.slot], last.strs[i][1])
                = [some |-> TRUE, v |-> last.strs[i][2]]

\* C5 amended: for each record of the descriptor, with key k, get(k) on the
\* store from_uplink_c returns is the value of the last record with key k;
\* so it is the record's own value when no later record repeats its key.
C5_LastRecordOfKeyFound ==
    last.op = "from_uplink_c" =>
        \A i \in DOMAIN last.strs :
            get(mem, stores[last.slot], last.strs[i][1])
                = [some |-> TRUE, v |-> last.strs[LastWithKey(last.strs, i)][2]]

\* C5 witness: from_uplink_c of a descriptor that gives one key two values.
C5_Witness ==
    /\ last.op = "from_uplink_c"
    /\ \E i, j \in DOMAIN last.strs :
          i < j /\ last.strs[i][1] = last.strs[j][1] /\ last.strs[i][2] # last.strs[j][2]

\* C6: the store from_uplink_c returned is independent of its input: no call
\* on another store and no release of the descriptor's memory changes its
\* count() or any get(k), and no call on it changes another store.
C6_ImportIsIndependent ==
    [][\A d \in Slots :
          (stores[d].alive /\ origin[d].kind = "from_uplink_c") =>
              /\ last'.slot # d =>
                    stores'[d].alive /\ View(mem', stores'[d]) = View(mem, stores[d])
              /\ last'.slot = d =>
                    \A s \in Slots \ {d} :
                        stores[s].alive =>
                            stores'[s].alive /\ View(mem', stores'[s]) = View(mem, stores[s])
      ]_vars

\* C6 witness: an imported store with entries, after the record array of the
\* descriptor it was made from was released.
C6_Witness ==
    \E d \in Slots :
        /\ stores[d].alive /\ origin[d].kind = "from_uplink_c"
        /\ count(stores[d]) > 0
        /\ origin[d].uc.entries \notin DOMAIN mem.vec
        /\ last.op \in {"drop", "insert", "delete", "native_free"}

\* C7: a key or value with a NUL byte in it is exported with its full length
\* and found byte for byte in the store from_uplink_c makes of the export.
C7_EmbeddedNulRoundTrip ==
    (last.op = "from_uplink_c" /\ last.src # 0) =>
        \A e \in stores[last.src].entries :
            (HasNul(Str(mem, e.key)) \/ HasNul(Str(mem, e.value))) =>
                /\ \E i \in DOMAIN exported[last.src].recs :
                      LET r == exported[last.src].recs[i]
                      IN /\ r.key = e.key.ptr /\ r.value = e.value.ptr
                         /\ r.key_length = Len(Str(mem, e.key))
                         /\ r.value_length = Len(Str(mem, e.value))
                /\ get(mem, stores[last.slot], Str(mem, e.key))
                       = [some |-> TRUE, v |-> Str(mem, e.value)]

\* C7 witness: a round trip of a store whose key and value both hold a NUL.
C7_Witness ==
    /\ last.op = "from_uplink_c" /\ last.src # 0
    /\ \E e \in stores[last.src].entries :
          HasNul(Str(mem, e.key)) /\ HasNul(Str(mem, e.value))

\* C8: from_uplink_c returns the success variant carrying a store, for every
\* descriptor, of count zero or more, with or without repeated keys.
C8_ImportNeverFails ==
    last.op = "from_uplink_c" => (last.tag = "Ok" /\ stores[last.slot].alive)

\* C8 witness: from_uplink_c of a descriptor of the native side with a
\* repeated key has returned.
C8_Witness ==
    /\ last.op = "from_uplink_c" /\ last.src = 0 /\ last.arg.count = 2
    /\ last.strs[1][1] = last.strs[2][1]
    /\ last.tag = "Ok"

\* C9: to_uplink_c on a store with no entries returns count 0 and a null
\* records pointer.
C9_EmptyExport ==
    (last.op = "to_uplink_c" /\ count(stores[last.slot]) = 0) =>
        last.ret = [entries |-> Null, count |-> 0]

\* C9 witness: to_uplink_c on a store emptied by delete after an export with
\* records.
C9_Witness ==
    /\ last.op = "to_uplink_c" /\ count(stores[last.slot]) = 0
    /\ last.prev.some /\ last.prev.desc.count > 0

\* C10: from_uplink_c of a descriptor with count 0 returns an empty store
\* with no cache and reads nothing through the records pointer; a null
\* records pointer is never read through.
C10_EmptyImport ==
    last.op = "from_uplink_c" =>
        /\ \A r \in last.reads : r[1] # Null
        /\ last.arg.count = 0 =>
              /\ last.reads = {}
              /\ stores[last.slot].alive
              /\ count(stores[last.slot]) = 0
              /\ ~stores[last.slot].inner.some

\* C10 witness: from_uplink_c of a descriptor with count 0 and a null pointer.
C10_Witness ==
    /\ last.op = "from_uplink_c"
    /\ last.arg = [entries |-> Null, count |-> 0]

\* The keys of a list of pairs are pairwise distinct.
DistinctKeys(list) == \A i, j \in DOMAIN list : i # j => list[i][1] # list[j][1]

\* C11: for a list P of pairs with pairwise distinct keys, with_entries(P)
\* yields a store with count() = len(P), get(k) = v for every (k, v) of P and
\* get(k) absent for every other key.
C11_WithEntriesDistinct ==
    (last.op = "with_entries" /\ DistinctKeys(last.list)) =>
        LET c == stores[last.slot]
        IN /\ count(c) = Len(last.list)
           /\ \A i \in DOMAIN last.list :
                 get(mem, c, last.list[i][1]) = [some |-> TRUE, v |-> last.list[i][2]]
           /\ \A k \in Keys :
                 (\A i \in DOMAIN last.list : last.list[i][1] # k) =>
                     get(mem, c, k) = NoneV

\* C11 witness: with_entries of two pairs with different keys has returned.
C11_Witness ==
    /\ last.op = "with_entries" /\ DistinctKeys(last.list)
    /\ Len(last.list) = 2

\* C12: when the list given to with_entries repeats a key, the store holds
\* the key once with the value of its last occurrence, count() is the number
\* of distinct keys, and the cache is absent.
C12_WithEntriesRepeatedKey ==
    (last.op = "with_entries" /\ ~DistinctKeys(last.list)) =>
        LET c == stores[last.slot]
        IN /\ \A i \in DOMAIN last.list :
                 get(mem, c, last.list[i][1])
                     = [some |-> TRUE, v |-> last.list[LastWithKey(last.list, i)][2]]
           /\ count(c) = Cardinality({last.list[i][1] : i \in DOMAIN last.list})
           /\ \A i \in DOMAIN last.list :
                 Cardinality({e \in c.entries : Str(mem, e.key) = last.list[i][1]}) = 1
           /\ ~c.inner.some

\* C12 witness: with_entries of a list that gives one key two values.
C12_Witness ==
    /\ last.op = "with_entries"
    /\ \E i, j \in DOMAIN last.list :
          i < j /\ last.list[i][1] = last.list[j][1] /\ last.list[i][2] # last.list[j][2]

\* C13: insert(k, v) returns false and raises count() by 1 when k was absent,
\* returns true and leaves count() as it was when k was present; afterwards
\* get(k) = v and get of every other key is what it was.
C13_InsertIsUpsert ==
    [][last'.op = "insert" =>
          LET s == last'.slot
              k == last'.key
              had == get(mem, stores[s], k).some
          IN /\ last'.ret = had
             /\ count(stores'[s]) = count(stores[s]) + (IF had THEN 0 ELSE 1)
             /\ get(mem', stores'[s], k) = [some |-> TRUE, v |-> last'.value]
             /\ \A k2 \in Keys \ {k} :
                   get(mem', stores'[s], k2) = get(mem, stores[s], k2)
      ]_vars

\* C13 witness: on a store created empty, an insert of a key and then an
\* insert of the same key, which returned true.
C13_Witness ==
    /\ last.op = "insert" /\ last.ret
    /\ origin[last.slot].kind = "default"
    /\ calls = 3
    /\ count(stores[last.slot]) = 1

\* C14: delete(k) on a store with k returns true, lowers count() by 1, makes
\* get(k) absent and leaves every other key's value; on a store without k it
\* returns false and leaves count() and every get as they were.
C14_DeleteRemoves ==
    [][last'.op = "delete" =>
          LET s == last'.slot
              k == last'.key
              had == get(mem, stores[s], k).some
          IN /\ last'.ret = had
             /\ stores'[s].alive
             /\ count(stores'[s]) = count(stores[s]) - (IF had THEN 1 ELSE 0)
             /\ get(mem', stores'[s], k) = NoneV
             /\ \A k2 \in Keys \ {k} :
                   get(mem', stores'[s], k2) = get(mem, stores[s], k2)
      ]_vars

\* C14 witness: a delete that returned true and left another entry.
C14_Witness ==
    /\ last.op = "delete" /\ last.ret
    /\ count(stores[last.slot]) = 1

\* C15: right after clone() the clone has the count and the pairs of the
\* source; from then on no call on another store changes count() or any
\* get(k) of the clone, and no call on the clone changes another store.
C15_CloneIsIndependent ==
    [][/\ last'.op = "clone" =>
             /\ stores'[last'.slot].alive
             /\ View(mem', stores'[last'.slot]) = View(mem, stores[last'.src])
       /\ \A d \in Slots :
             (stores[d].alive /\ origin[d].kind = "clone") =>
                 /\ last'.slot # d =>
                       stores'[d].alive /\ View(mem', stores'[d]) = View(mem, stores[d])
                 /\ last'.slot = d =>
                       \A s \in Slots \ {d} :
                           stores[s].alive =>
                               /\ stores'[s].alive
                               /\ View(mem', stores'[s]) = View(mem, stores[s])
      ]_vars

\* C15 witness: a clone with entries whose source was changed after the
\* clone was made.
C15_Witness ==
    \E d \in Slots :
        /\ stores[d].alive /\ origin[d].kind = "clone"
        /\ count(stores[d]) > 0
        /\ last.op \in {"insert", "delete"} /\ last.slot = origin[d].src
        /\ View(mem, stores[d]) # View(mem, stores[last.slot])

\* The allocations the boxes of a store's map point to.
OwnPtrs(c) ==
    {e.key.ptr : e \in {x \in c.entries : x.key.len > 0}}
        \cup {e.value.ptr : e \in {x \in c.entries : x.value.len > 0}}

\* C16: the cache of a store is present exactly when to_uplink_c was called
\* on it with no insert or delete called since; every insert and every delete
\* leaves the cache absent, also when it changes no entry.
C16_CacheState ==
    /\ \A s \in Slots :
          stores[s].alive =>
              (stores[s].inner.some <=> (exported[s].some /\ ~exported[s].stale))
    /\ last.op \in {"insert", "delete"} => ~stores[last.slot].inner.some

\* C16 witness: after an export, an insert of a key with the value it has.
C16_Witness ==
    /\ last.op = "insert" /\ last.ret
    /\ last.key = K2 /\ last.value = V2
    /\ origin[last.slot].kind = "with_entries"
    /\ exported[last.slot].some
    /\ calls = 3

\* C17: once insert or delete is called on the store, or the store is
\* dropped, the record array of a descriptor with count > 0 returned before
\* is released.
C17_StaleDescriptorReleased ==
    \A s \in Slots :
        (exported[s].some /\ exported[s].stale /\ exported[s].desc.count > 0) =>
            exported[s].desc.entries \notin DOMAIN mem.vec

\* C17 witness: a descriptor with records, after a delete of an absent key.
C17_Witness ==
    /\ last.op = "delete" /\ ~last.ret
    /\ exported[last.slot].some /\ exported[last.slot].stale
    /\ exported[last.slot].desc.count > 0

\* C18: clone() makes a store with no cache, whatever the source's cache, and
\* leaves the source's entries and cache as they were; the first to_uplink_c
\* on the clone builds a new record array whose records point to the clone's
\* buffers and not to the source's.
C18_CloneHasOwnCache ==
    [][/\ last'.op = "clone" =>
             LET src == last'.src
             IN /\ ~stores'[last'.slot].inner.some
                /\ stores'[src] = stores[src]
                /\ stores[src].inner.some =>
                      /\ DescLive(mem', stores'[src].inner.custom_metadata)
                      /\ DescRecs(mem', stores'[src].inner.custom_metadata)
                             = DescRecs(mem, stores[src].inner.custom_metadata)
       /\ (/\ last'.op = "to_uplink_c"
           /\ origin[last'.slot].kind = "clone"
           /\ ~exported[last'.slot].some
           /\ count(stores[last'.slot]) > 0) =>
             LET d == last'.ret
                 src == origin[last'.slot].src
             IN /\ d.entries \notin DOMAIN mem.vec
                /\ d.entries \in DOMAIN mem'.vec
                /\ \A i \in 1..d.count :
                      LET r == ReadEntry(mem', d.entries, i - 1)
                          own == OwnPtrs(stores'[last'.slot])
                          other == IF stores'[src].alive THEN OwnPtrs(stores'[src]) ELSE {}
                      IN /\ r.key_length > 0 => (r.key \in own /\ r.key \notin other)
                         /\ r.value_length > 0 => (r.value \in own /\ r.value \notin other)
      ]_vars

\* C18 witness: the first to_uplink_c on a clone made of a source whose cache
\* is present.
C18_Witness ==
    /\ last.op = "to_uplink_c" /\ origin[last.slot].kind = "clone"
    /\ ~last.prev.some
    /\ last.ret.count > 0
    /\ stores[origin[last.slot].src].alive
    /\ stores[origin[last.slot].src].inner.some

\* C19: count(), get(key) and iter() change nothing: the entries, the cache
\* and the memory are as before, and a to_uplink_c after the call returns
\* the descriptor exported before it.
C19_ReadsChangeNothing ==
    [][last'.op \in {"count", "get", "iter"} =>
          LET s == last'.slot
          IN /\ stores' = stores
             /\ mem' = mem
             /\ (exported[s].some /\ ~exported[s].stale) =>
                   \A ord \in Orders(stores'[s].entries) :
                       to_uplink_c(mem', stores'[s], ord).ret = exported[s].desc
      ]_vars

\* C19 witness: a get that found a value on a store whose descriptor is
\* exported and covered.
C19_Witness ==
    /\ last.op = "get" /\ last.ret.some
    /\ exported[last.slot].some /\ ~exported[last.slot].stale

\* C20: to_uplink_c changes only the cache: count() and every get(k) are as
\* before, the map and the bytes of every key and value are unchanged, and
\* so is every other store.
C20_ExportOnlyTouchesCache ==
    [][last'.op = "to_uplink_c" =>
          LET s == last'.slot
          IN /\ stores'[s].alive
             /\ View(mem', stores'[s]) = View(mem, stores[s])
             /\ \A k \in Keys : get(mem', stores'[s], k) = get(mem, stores[s], k)
             /\ stores'[s].entries = stores[s].entries
             /\ mem'.str = mem.str
             /\ \A t \in Slots \ {s} : stores'[t] = stores[t]
      ]_vars

\* C20 witness: a to_uplink_c that built the record array of a store of two
\* entries.
C20_Witness ==
    /\ last.op = "to_uplink_c" /\ last.allocs = 1
    /\ count(stores[last.slot]) = 2

====
